---------------------------- MODULE Spec2Model ----------------------------
(***************************************************************************)
(* Model of the financial_analysis package of pyb: the data alignment      *)
(* functions (data/preprocessing.py) and the signal driven backtest        *)
(* (strategies/backtest.py).                                               *)
(*                                                                         *)
(* A table (pandas DataFrame) is a function  date position -> row, a row   *)
(* is a function  instrument -> cell,  and a cell is a number or NaN.      *)
(* Instruments are numbered in the table's column order.                   *)
(*                                                                         *)
(* backtest.py builds its strategy from the algos of the bt library        *)
(* (RunQuarterly/RunMonthly/RunWeekly, SetStat, SelectN, WeighEqually,      *)
(* Rebalance) and runs it with bt.Backtest; the operators that carry those *)
(* names model what these calls do when backtest.py makes them, with bt's  *)
(* defaults for everything backtest.py does not pass (integer positions,   *)
(* no commissions, run_on_last_date = False, sort kind 'quicksort').       *)
(* Arithmetic is exact (rationals as numerator/denominator pairs), so      *)
(* floating point rounding is not part of the model.                       *)
(***************************************************************************)
EXTENDS Integers, Sequences, FiniteSets, TLC

VARIABLES
    \* ---- SelectTopK called on one signal row -----------------------------
    sel_row,        \* the signal row  (target.temp['stat'] before dropna)
    sel_K,          \* K
    sel_desc,       \* sort_descending
    sel_aon,        \* all_or_none
    sel_out,        \* target.temp['selected'], an ordered list
    sel_pc,         \* "idle" | "input" | "selected"
    \* ---- filter_by_ipo_date ----------------------------------------------
    ipo_axis,       \* candlestick_df.index : date position -> day number
    ipo_in,         \* candlestick_df
    ipo_rec,        \* stock_info_df : instrument -> ipoDate or NoRecord
    ipo_out1,       \* filter_by_ipo_date(candlestick_df, stock_info_df)
    ipo_out2,       \* filter_by_ipo_date(ipo_out1, stock_info_df)
    ipo_pc,         \* "idle" | "raw" | "once" | "twice"
    \* ---- filter_factors_by_first_close -----------------------------------
    fac_closeAxis,  \* close_df.index
    fac_close,      \* close_df : date position -> [its columns -> cell]
    fac_axis,       \* factor_df.index
    fac_in,         \* factor_df
    fac_out,        \* filter_factors_by_first_close(close_df, factor_df)
    fac_pc,         \* "idle" | "raw" | "filtered"
    \* ---- create_combined_ratio(ratio_dfs, weights) -----------------------
    cmb_in,         \* the caller's tables: ratio_dfs, or the ratios dict as
                    \* <<pb, pe, dividend_yield>>
    cmb_w,          \* weights, in units of 1/WeightDen
    cmb_norm,       \* normalized_dfs
    cmb_out,        \* the returned combined_df
    cmb_pc,         \* "idle" | "raw" | "combined" | "ValueError" |
                    \* "ratios" | "composite"
    \* ---- get_candlestick_data / get_fundamental_data ---------------------
    ing_kind,       \* "candlestick" | "fundamental": the function called
    ing_files,      \* symbol -> the JSON file of the symbol in the directory
    ing_out,        \* the returned table (output_format='bt')
    ing_pc,         \* "idle" | "request" | "loaded" | "raised"
    \* ---- download_candlestick_data(stock_codes, ...) ---------------------
    dl_codes,       \* stock_codes, as the answer the API gives for each
    dl_i,           \* number of stock codes the loop has handled
    dl_results,     \* results: stock position -> "data" | "None"
    dl_saved,       \* the stock positions whose file was written
    dl_pc,          \* "idle" | "running" | "returned" | "raised"
    \* ---- main(): prices, ratios, combined ratio, combined strategy -------
    pl_close,       \* close_df_filtered
    pl_raw,         \* the ratio tables as loaded
    pl_filtered,    \* the ratio tables after prepare_ratio_for_analysis
    pl_combined,    \* the combined ratio
    pl_date,        \* a rebalance date of the combined strategy, 0 if none
    pl_selected,    \* temp['selected'] of the combined strategy on pl_date
    pl_pc,          \* "idle" | "loaded" | "prepared" | "combined" | "selected"
    \* ---- download_stock_info.main / download_fundamental.main ------------
    rt_stocks,      \* per entry of the list: "listed" | "filtered"
    rt_exists,      \* the entries whose output file exists at the start
    rt_i,           \* number of entries the loop has taken
    rt_hist,        \* per entry: what each download attempt did, in order
    rt_written,     \* the entries whose output file this run wrote
    rt_pc,          \* "idle" | "next" | "trying" | "done"
    \* ---- run_backtest(create_strategy(...), price_data) ------------------
    bt_axis,        \* price_data.index, dates as yyyymmdd numbers
    bt_k,           \* k
    bt_period,      \* rebalance_period
    bt_desc,        \* sort_descending
    bt_i,           \* position in the axis of the last date processed, 0 before
    bt_status,      \* "idle" | "configured" | "running" | "raised" |
                    \* "ValueError"
    bt_price,       \* price_data row of date bt_i
    bt_signal,      \* signal_df row SetStat read on date bt_i, <<>> if none
    bt_rebal,       \* the rebalance algo returned True on date bt_i
    bt_rebalDates,  \* the positions of the dates on which it returned True
    bt_log,         \* store_dict of LogAvailableStocks: date position -> count
    bt_selected,    \* temp['selected'] on date bt_i
    bt_weights,     \* temp['weights'] on date bt_i : selected -> <<num, den>>
    bt_pos,         \* units held of each instrument after date bt_i
    bt_capital,     \* cash not invested
    bt_value,       \* strategy value
    bt_equity       \* strategy price (the equity series), <<num, den>>

selVars == <<sel_row, sel_K, sel_desc, sel_aon, sel_out, sel_pc>>
ipoVars == <<ipo_axis, ipo_in, ipo_rec, ipo_out1, ipo_out2, ipo_pc>>
facVars == <<fac_closeAxis, fac_close, fac_axis, fac_in, fac_out, fac_pc>>
cmbVars == <<cmb_in, cmb_w, cmb_norm, cmb_out, cmb_pc>>
ingVars == <<ing_kind, ing_files, ing_out, ing_pc>>
dlVars == <<dl_codes, dl_i, dl_results, dl_saved, dl_pc>>
rtVars == <<rt_stocks, rt_exists, rt_i, rt_hist, rt_written, rt_pc>>
plVars == <<pl_close, pl_raw, pl_filtered, pl_combined, pl_date, pl_selected,
            pl_pc>>
btConfig == <<bt_axis, bt_k, bt_period, bt_desc>>
btVars == <<btConfig, bt_i, bt_status, bt_price, bt_signal, bt_rebal,
            bt_rebalDates, bt_log, bt_selected, bt_weights, bt_pos, bt_capital,
            bt_value, bt_equity>>

-----------------------------------------------------------------------------
(* Bounds of the model *)

NInst == 3          \* instruments (columns) of the selection rows
MaxK == 3           \* largest selection size K tried
MaxSignal == 2      \* signal values are 1..MaxSignal
NIpoInst == 2       \* columns of the price table given to filter_by_ipo_date
NIpoDates == 3      \* rows of that table
MaxDay == 4         \* its dates are day numbers 1..MaxDay
MaxPrice == 2       \* prices are 1..MaxPrice
NFacInst == 2       \* instruments the price and the factor table draw columns from
NFacDates == 2      \* rows of each of these two tables
NCmbInst == 3
NCmbDates == 2
MaxRatio == 2
MaxSignals == 2
NIngSymbols == 2
MaxRecords == 2
NIngDates == 2
MaxIngValue == 2
NDlStocks == 4
NRtStocks == 2
NPlInst == 2
NPlDates == 2
NBtInst == 2        \* instruments of a backtest run
MaxBtDates == 3     \* longest date axis of a backtest run
MaxBtK == 2         \* largest k of a backtest run
MaxBtPrice == 3     \* prices of a backtest run are 1..MaxBtPrice
InitialCapital == 100   \* stands for bt.Backtest's initial_capital, 1000000.0

(* "no observation": numpy.nan *)
NaN == -1000

Instruments == 1..NInst
SignalCells == (1..MaxSignal) \cup {NaN}
PriceCells == (1..MaxPrice) \cup {NaN}

Min(a, b) == IF a < b THEN a ELSE b

-----------------------------------------------------------------------------
(* SelectTopK = SetStat(signal) ; SelectN(K, sort_descending, all_or_none,  *)
(* filter_selected).  Nothing sets temp['selected'] before SelectN runs,    *)
(* so filter_selected has nothing to filter.                                *)

\* stat.dropna(): the instruments with a value on the row
DropNa(row) == {i \in DOMAIN row : row[i] # NaN}

\* v sorts strictly before w under sort_values(ascending = ~desc)
Before(v, w, desc) == IF desc THEN v > w ELSE v < w

\* The orders stat.sort_values(ascending=...) can leave the valid instruments
\* in.  SelectN does not pass `kind`, so the sort is numpy's default
\* 'quicksort', which is not a stable sort: the order among equal values is
\* whatever the build's sort yields.
SortValues(row, desc) ==
    LET S == DropNa(row)
        n == Cardinality(S)
    IN  {p \in [1..n -> S] :
            /\ \A a, b \in 1..n : a # b => p[a] # p[b]
            /\ \A a, b \in 1..n : a < b => ~Before(row[p[b]], row[p[a]], desc)}

SelectN_IgnoreDirection(row, K, desc, aon) ==
    {IF aon /\ Len(p) < K THEN <<>> ELSE SubSeq(p, 1, Min(K, Len(p))) :
        p \in SortValues(row, FALSE)}

\* SelectN.__call__: sel = list(stat[:K].index); all_or_none empties a short
\* selection.  The set of lists the call can leave in temp['selected'].
\* K below 1 is read as a fraction of the candidates: keep_n = int(K * len)
SelectN(row, K, desc, aon) ==
    {LET keep_n == IF K < 1 THEN K * Len(p) ELSE K
         sel == IF keep_n >= 0 THEN SubSeq(p, 1, Min(keep_n, Len(p)))
                ELSE SubSeq(p, 1, Len(p) + keep_n)
     IN  IF aon /\ Len(sel) < keep_n THEN <<>> ELSE sel :
        p \in SortValues(row, desc)}

SelInit ==
    /\ sel_row \in [Instruments -> SignalCells]
    /\ sel_K \in 1..MaxK
    /\ sel_desc \in BOOLEAN
    /\ sel_aon \in BOOLEAN
    /\ sel_out = <<>>
    /\ sel_pc = "input"

SelIdle ==
    /\ sel_row = <<>>
    /\ sel_K = 1
    /\ sel_desc = FALSE
    /\ sel_aon = FALSE
    /\ sel_out = <<>>
    /\ sel_pc = "idle"

\* SelectTopK.__call__ on the row
Select ==
    /\ sel_pc = "input"
    /\ \E s \in SelectN(sel_row, sel_K, sel_desc, sel_aon) : sel_out' = s
    /\ sel_pc' = "selected"
    /\ UNCHANGED <<sel_row, sel_K, sel_desc, sel_aon>>
    /\ UNCHANGED <<ipoVars, facVars, cmbVars, btVars, ingVars, dlVars, plVars, rtVars>>

-----------------------------------------------------------------------------
(* filter_by_ipo_date(candlestick_df, stock_info_df)                        *)

\* an instrument without a row in stock_info_df
NoRecord == -1

IpoInstruments == 1..NIpoInst
IpoDates == 1..NIpoDates
IpoDays == 0..(MaxDay + 1)

\* the strictly increasing date indexes (get_candlestick_data pivots on the
\* date and sorts the index)
SortedAxes(n, days) ==
    {a \in [1..n -> days] : \A s, t \in 1..n : s < t => a[s] < a[t]}

ClearThroughIpo(axis, df, rec) ==
    [t \in DOMAIN df |->
        [i \in DOMAIN df[t] |->
            IF rec[i] # NoRecord /\ axis[t] <= rec[i] THEN NaN ELSE df[t][i]]]

ClearUnlistedToo(axis, df, rec) ==
    [t \in DOMAIN df |->
        [i \in DOMAIN df[t] |->
            IF rec[i] = NoRecord \/ axis[t] < rec[i] THEN NaN ELSE df[t][i]]]

\* filtered_df.loc[filtered_df.index < ipo_date, stock] = np.nan, for every
\* column that has a record
ClearBeforeIpo(axis, df, rec) ==
    [t \in DOMAIN df |->
        [i \in DOMAIN df[t] |->
            IF rec[i] # NoRecord /\ axis[t] < rec[i] THEN NaN ELSE df[t][i]]]

RECURSIVE FfillCell(_, _, _)
\* the cell fillna(method='ffill') leaves at row t of column i
FfillCell(df, t, i) ==
    IF df[t][i] # NaN THEN df[t][i]
    ELSE IF t = 1 THEN NaN
    ELSE FfillCell(df, t - 1, i)

FfillLimit1(df) ==
    [t \in DOMAIN df |->
        [i \in DOMAIN df[t] |->
            IF df[t][i] # NaN \/ t = 1 THEN df[t][i] ELSE df[t - 1][i]]]

RECURSIVE BfillCell(_, _, _)
BfillCell(df, t, i) ==
    IF df[t][i] # NaN THEN df[t][i]
    ELSE IF t = Len(df) THEN NaN
    ELSE BfillCell(df, t + 1, i)

\* a fill that takes the next valid value instead of the previous one
Bfill(df) ==
    [t \in DOMAIN df |-> [i \in DOMAIN df[t] |-> BfillCell(df, t, i)]]

\* filtered_df.fillna(method='ffill'): every column of the table
Ffill(df) ==
    [t \in DOMAIN df |-> [i \in DOMAIN df[t] |-> FfillCell(df, t, i)]]

filter_by_ipo_date(axis, df, rec) == Ffill(ClearBeforeIpo(axis, df, rec))

IpoInit ==
    /\ ipo_axis \in SortedAxes(NIpoDates, 1..MaxDay)
    /\ ipo_in \in [IpoDates -> [IpoInstruments -> PriceCells]]
    /\ ipo_rec \in [IpoInstruments -> IpoDays \cup {NoRecord}]
    /\ ipo_out1 = <<>>
    /\ ipo_out2 = <<>>
    /\ ipo_pc = "raw"

IpoIdle ==
    /\ ipo_axis = <<>>
    /\ ipo_in = <<>>
    /\ ipo_rec = <<>>
    /\ ipo_out1 = <<>>
    /\ ipo_out2 = <<>>
    /\ ipo_pc = "idle"

\* close_df_filtered = filter_by_ipo_date(close_df, stock_info_df)
FilterOnce ==
    /\ ipo_pc = "raw"
    /\ ipo_out1' = filter_by_ipo_date(ipo_axis, ipo_in, ipo_rec)
    /\ ipo_pc' = "once"
    /\ UNCHANGED <<ipo_axis, ipo_in, ipo_rec, ipo_out2>>
    /\ UNCHANGED <<selVars, facVars, cmbVars, btVars, ingVars, dlVars, plVars, rtVars>>

\* the function applied to its own output, same records
FilterTwice ==
    /\ ipo_pc = "once"
    /\ ipo_out2' = filter_by_ipo_date(ipo_axis, ipo_out1, ipo_rec)
    /\ ipo_pc' = "twice"
    /\ UNCHANGED <<ipo_axis, ipo_in, ipo_rec, ipo_out1>>
    /\ UNCHANGED <<selVars, facVars, cmbVars, btVars, ingVars, dlVars, plVars, rtVars>>

-----------------------------------------------------------------------------
(* filter_factors_by_first_close(close_df, factor_df)                       *)

\* first_valid_index() of a column without any value
NoDate == -1

FacInstruments == 1..NFacInst
FacDates == 1..NFacDates
Columns(df) == DOMAIN df[1]

last_valid_index(axis, df, c) ==
    LET V == {t \in DOMAIN df : df[t][c] # NaN}
    IN  IF V = {} THEN NoDate
        ELSE axis[CHOOSE t \in V : \A u \in V : t >= u]

\* close_df[column].first_valid_index(): the date of the first row with a
\* price
first_valid_index(axis, df, c) ==
    LET V == {t \in DOMAIN df : df[t][c] # NaN}
    IN  IF V = {} THEN NoDate
        ELSE axis[CHOOSE t \in V : \A u \in V : t <= u]

\* the keys of first_close_dates: columns of both tables that have a price
FirstCloseKeys(closeAxis, close, factor) ==
    {c \in Columns(close) \cap Columns(factor) :
        first_valid_index(closeAxis, close, c) # NoDate}

\* a filter that also clears every column the price table does not have
ClearUnpricedColumns(closeAxis, close, axis, factor) ==
    [t \in DOMAIN factor |->
        [c \in Columns(factor) |->
            IF \/ c \notin Columns(close)
               \/ /\ c \in FirstCloseKeys(closeAxis, close, factor)
                  /\ axis[t] < first_valid_index(closeAxis, close, c)
            THEN NaN
            ELSE factor[t][c]]]

\* filtered_factor_df.loc[factor_df.index < first_date, stock_code] = np.nan
\* for every key of first_close_dates
filter_factors_by_first_close(closeAxis, close, axis, factor) ==
    [t \in DOMAIN factor |->
        [c \in Columns(factor) |->
            IF /\ c \in FirstCloseKeys(closeAxis, close, factor)
               /\ axis[t] < first_valid_index(closeAxis, close, c)
            THEN NaN
            ELSE factor[t][c]]]

FacInit ==
    /\ fac_closeAxis \in SortedAxes(NFacDates, 1..MaxDay)
    /\ fac_axis \in SortedAxes(NFacDates, 1..MaxDay)
    /\ \E C \in SUBSET FacInstruments \ {{}} :
            fac_close \in [FacDates -> [C -> PriceCells]]
    /\ \E C \in SUBSET FacInstruments \ {{}} :
            fac_in \in [FacDates -> [C -> SignalCells]]
    /\ fac_out = <<>>
    /\ fac_pc = "raw"

FacIdle ==
    /\ fac_closeAxis = <<>>
    /\ fac_close = <<>>
    /\ fac_axis = <<>>
    /\ fac_in = <<>>
    /\ fac_out = <<>>
    /\ fac_pc = "idle"

\* RatioLoader.prepare_ratio_for_analysis
FilterFactors ==
    /\ fac_pc = "raw"
    /\ fac_out' =
          filter_factors_by_first_close(fac_closeAxis, fac_close, fac_axis, fac_in)
    /\ fac_pc' = "filtered"
    /\ UNCHANGED <<fac_closeAxis, fac_close, fac_axis, fac_in>>
    /\ UNCHANGED <<selVars, ipoVars, cmbVars, btVars, ingVars, dlVars, plVars, rtVars>>

-----------------------------------------------------------------------------
(* create_combined_ratio(ratio_dfs, weights)                                *)
(* A ratio table is a function from its dates to rows, a row a function    *)
(* from its columns to values; a value is a rational <<num, den>> with     *)
(* den > 0, and <<0, 0>> is NaN.                                            *)

RECURSIVE Gcd(_, _)
Gcd(a, b) == IF b = 0 THEN a ELSE Gcd(b, a % b)

\* the rational num/den in lowest terms
Frac(num, den) == LET g == Gcd(num, den) IN <<num \div g, den \div g>>

QNaN == <<0, 0>>
IsNa(q) == q[2] = 0
Q(v) == <<v, 1>>
QLess(a, b) == a[1] * b[2] < b[1] * a[2]
QAdd(a, b) == Frac(a[1] * b[2] + b[1] * a[2], a[2] * b[2])
QSub(a, b) == Frac(a[1] * b[2] - b[1] * a[2], a[2] * b[2])
\* a / b for b > 0
QDiv(a, b) == Frac(a[1] * b[2], a[2] * b[1])

\* weights are counted in units of 1/WeightDen, so 0.0001 is Tolerance units
WeightDen == 40000
Tolerance == 4
QTimes(q, w) == Frac(q[1] * w, q[2] * WeightDen)

CmbDates(df) == DOMAIN df
CmbColumns(df) == DOMAIN df[CHOOSE t \in DOMAIN df : TRUE]
Observed(row) == {c \in DOMAIN row : ~IsNa(row[c])}

\* row.min(skipna=True), row.max(skipna=True) of a row that is not all NaN
RowMin(row) ==
    row[CHOOSE c \in Observed(row) :
            \A d \in Observed(row) : ~QLess(row[d], row[c])]
RowMax(row) ==
    row[CHOOSE c \in Observed(row) :
            \A d \in Observed(row) : ~QLess(row[c], row[d])]

\* a normalisation that maps a row whose values are all equal to zeros
NormalizeRowFlatToZero(row) ==
    IF Observed(row) = {} THEN row
    ELSE [c \in DOMAIN row |->
            IF IsNa(row[c]) THEN QNaN
            ELSE IF QLess(RowMin(row), RowMax(row))
                 THEN QDiv(QSub(row[c], RowMin(row)),
                           QSub(RowMax(row), RowMin(row)))
                 ELSE Q(0)]

\* a normalisation that divides by the maximum instead of the range
NormalizeRowByMax(row) ==
    IF Observed(row) = {} THEN row
    ELSE IF QLess(RowMin(row), RowMax(row)) /\ QLess(Q(0), RowMax(row))
         THEN [c \in DOMAIN row |->
                 IF IsNa(row[c]) THEN QNaN
                 ELSE QDiv(QSub(row[c], RowMin(row)), RowMax(row))]
         ELSE row

\* lines 121-126: the row of one date of df_normalized
NormalizeRow(row) ==
    IF Observed(row) = {} THEN row
    ELSE IF QLess(RowMin(row), RowMax(row))
         THEN [c \in DOMAIN row |->
                 IF IsNa(row[c]) THEN QNaN
                 ELSE QDiv(QSub(row[c], RowMin(row)),
                           QSub(RowMax(row), RowMin(row)))]
         ELSE row

\* lines 119-127: df_normalized
Normalize(df) == [t \in DOMAIN df |-> NormalizeRow(df[t])]

\* df.fillna(0)
FillNa0(df) ==
    [t \in DOMAIN df |->
        [c \in DOMAIN df[t] |-> IF IsNa(df[t][c]) THEN Q(0) ELSE df[t][c]]]

\* df * weights[i]
Times(df, w) ==
    [t \in DOMAIN df |->
        [c \in DOMAIN df[t] |->
            IF IsNa(df[t][c]) THEN QNaN ELSE QTimes(df[t][c], w)]]

\* an addition that counts a cell one table lacks as 0
AddFillMissing(a, b) ==
    LET At(df, t, c) ==
            IF t \in CmbDates(df) /\ c \in CmbColumns(df) /\ ~IsNa(df[t][c])
            THEN df[t][c] ELSE Q(0)
    IN  [t \in CmbDates(a) \cup CmbDates(b) |->
            [c \in CmbColumns(a) \cup CmbColumns(b) |->
                QAdd(At(a, t, c), At(b, t, c))]]

\* a + b of two tables: pandas aligns them on the union of their dates and
\* of their columns, and a cell that one of them lacks is NaN
Add(a, b) ==
    [t \in CmbDates(a) \cup CmbDates(b) |->
        [c \in CmbColumns(a) \cup CmbColumns(b) |->
            IF /\ t \in CmbDates(a) /\ t \in CmbDates(b)
               /\ c \in CmbColumns(a) /\ c \in CmbColumns(b)
               /\ ~IsNa(a[t][c]) /\ ~IsNa(b[t][c])
            THEN QAdd(a[t][c], b[t][c])
            ELSE QNaN]]

\* line 130: pd.DataFrame(index=ratio_dfs[0].index, columns=ratio_dfs[0].columns)
EmptyFrame(df) == [t \in CmbDates(df) |-> [c \in CmbColumns(df) |-> QNaN]]

\* lines 131-132: the loop from table i on, combined_df being acc
RECURSIVE CombineFrom(_, _, _, _)
CombineFrom(normalized, weights, i, acc) ==
    IF i > Len(normalized) THEN acc
    ELSE CombineFrom(normalized, weights, i + 1,
            Add(FillNa0(acc), Times(FillNa0(normalized[i]), weights[i])))

RECURSIVE SeqSum(_)
SeqSum(s) == IF s = <<>> THEN 0 ELSE Head(s) + SeqSum(Tail(s))

Abs(x) == IF x < 0 THEN -x ELSE x

\* a precondition that only compares the lengths
MismatchedLengthsOnly(ratio_dfs, weights) == Len(ratio_dfs) # Len(weights)

\* lines 109-113: the two conditions that raise ValueError
InvalidArguments(ratio_dfs, weights) ==
    \/ Len(ratio_dfs) # Len(weights)
    \/ Abs(SeqSum(weights) - WeightDen) > Tolerance

\* a normalisation written into the caller's tables instead of copies
create_combined_ratio_in_place(ratio_dfs, weights) ==
    IF InvalidArguments(ratio_dfs, weights)
    THEN [raised |-> "ValueError", ratio_dfs |-> ratio_dfs,
          normalized_dfs |-> <<>>, combined_df |-> <<>>]
    ELSE LET normalized ==
                 [i \in 1..Len(ratio_dfs) |-> Normalize(ratio_dfs[i])]
         IN  [raised |-> "no",
              ratio_dfs |-> normalized,
              normalized_dfs |-> normalized,
              combined_df |->
                  CombineFrom(normalized, weights, 1,
                              EmptyFrame(ratio_dfs[1]))]

\* the whole call: what it raises, what the caller's tables hold afterwards
\* (df.copy() at line 119: the rows are written to the copy), the
\* normalised tables and the returned table
create_combined_ratio(ratio_dfs, weights) ==
    IF InvalidArguments(ratio_dfs, weights)
    THEN [raised |-> "ValueError", ratio_dfs |-> ratio_dfs,
          normalized_dfs |-> <<>>, combined_df |-> <<>>]
    ELSE LET normalized ==
                 [i \in 1..Len(ratio_dfs) |-> Normalize(ratio_dfs[i])]
         IN  [raised |-> "no",
              ratio_dfs |-> ratio_dfs,
              normalized_dfs |-> normalized,
              combined_df |->
                  CombineFrom(normalized, weights, 1,
                              EmptyFrame(ratio_dfs[1]))]

\* the ratio tables of at most n instruments on at most d dates
RatioTables(d, n, values) ==
    UNION {[I -> [C -> {QNaN} \cup {Q(v) : v \in values}]] :
            <<I, C>> \in (SUBSET (1..d) \ {{}}) \X (SUBSET (1..n) \ {{}})}

Lists(S, n) == UNION {[1..m -> S] : m \in 1..n}

WeightChoices == {16000, 24000, 24002}

CmbInit ==
    /\ cmb_in \in Lists(RatioTables(1, NCmbInst, 0..MaxRatio), MaxSignals)
                    \cup Lists(RatioTables(NCmbDates, NCmbInst - 1,
                                           1..MaxRatio), MaxSignals)
    /\ cmb_w \in Lists(WeightChoices, MaxSignals)
    /\ cmb_norm = <<>>
    /\ cmb_out = <<>>
    /\ cmb_pc = "raw"

CmbIdle ==
    /\ cmb_in = <<>>
    /\ cmb_w = <<>>
    /\ cmb_norm = <<>>
    /\ cmb_out = <<>>
    /\ cmb_pc = "idle"

\* one call of create_combined_ratio
Combine ==
    /\ cmb_pc = "raw"
    /\ LET r == create_combined_ratio(cmb_in, cmb_w)
       IN  /\ cmb_in' = r.ratio_dfs
           /\ cmb_norm' = r.normalized_dfs
           /\ cmb_out' = r.combined_df
           /\ cmb_pc' = IF r.raised = "no" THEN "combined" ELSE r.raised
    /\ UNCHANGED cmb_w
    /\ UNCHANGED <<selVars, ipoVars, facVars, btVars, ingVars, dlVars, plVars, rtVars>>

\* ratios['dividend_yield'] * -1: a new table
Negate(df) ==
    [t \in DOMAIN df |->
        [c \in DOMAIN df[t] |->
            IF IsNa(df[t][c]) THEN QNaN ELSE <<-df[t][c][1], df[t][c][2]>>]]

\* the default weights of create_value_composite: pb 0.4, pe 0.4,
\* dividend_yield 0.2
DefaultWeights == <<16000, 16000, 8000>>

CompositeInit ==
    /\ cmb_in \in [1..3 -> RatioTables(1, NCmbInst - 1, 0..(MaxRatio - 1))]
    /\ cmb_w \in {DefaultWeights, <<16000, 16000, 16000>>}
    /\ cmb_norm = <<>>
    /\ cmb_out = <<>>
    /\ cmb_pc = "ratios"

\* one call of create_value_composite(ratios, weights): the tables handed
\* to create_combined_ratio are pb, pe and the negated copy of
\* dividend_yield, so ratios['dividend_yield'] is not among the tables that
\* call could write to
ValueComposite ==
    /\ cmb_pc = "ratios"
    /\ LET inverted_dyr_df == Negate(cmb_in[3])
           r == create_combined_ratio(
                    <<cmb_in[1], cmb_in[2], inverted_dyr_df>>, cmb_w)
       IN  /\ cmb_in' = <<r.ratio_dfs[1], r.ratio_dfs[2], cmb_in[3]>>
           /\ cmb_norm' = r.normalized_dfs
           /\ cmb_out' = r.combined_df
           /\ cmb_pc' = IF r.raised = "no" THEN "composite" ELSE r.raised
    /\ UNCHANGED cmb_w
    /\ UNCHANGED <<selVars, ipoVars, facVars, btVars, ingVars, dlVars, plVars, rtVars>>

-----------------------------------------------------------------------------
(* Calendar: what pandas.Timestamp(date).year/.quarter/.month/.week give    *)
(* the rebalance algos.  A date is the number yyyymmdd.                     *)

Year(date) == date \div 10000
Month(date) == (date \div 100) % 100
Day(date) == date % 100
Quarter(date) == (Month(date) - 1) \div 3 + 1

\* days since 1970-01-01 in the proleptic Gregorian calendar
DaysFromCivil(y, m, d) ==
    LET yy == IF m <= 2 THEN y - 1 ELSE y
        era == yy \div 400
        yoe == yy - era * 400
        mp == IF m > 2 THEN m - 3 ELSE m + 9
        doy == (153 * mp + 2) \div 5 + d - 1
        doe == yoe * 365 + yoe \div 4 - yoe \div 100 + doy
    IN  era * 146097 + doe - 719468

\* Monday = 1 .. Sunday = 7
Weekday(date) ==
    ((DaysFromCivil(Year(date), Month(date), Day(date)) + 3) % 7) + 1

DayOfYear(date) ==
    DaysFromCivil(Year(date), Month(date), Day(date))
        - DaysFromCivil(Year(date), 1, 1) + 1

WeeksInYear(y) ==
    LET P(z) == (z + z \div 4 - z \div 100 + z \div 400) % 7
    IN  IF P(y) = 4 \/ P(y - 1) = 3 THEN 53 ELSE 52

\* Timestamp.week: the ISO 8601 week number
Week(date) ==
    LET w == (DayOfYear(date) - Weekday(date) + 10) \div 7
    IN  IF w < 1 THEN WeeksInYear(Year(date) - 1)
        ELSE IF w > WeeksInYear(Year(date)) THEN 1
        ELSE w

-----------------------------------------------------------------------------
(* create_strategy: the algo stack                                          *)
(*   [rebalance_algo, LogAvailableStocks, SelectTopK, WeighEqually,         *)
(*    Rebalance]                                                            *)
(* and run_backtest: bt.Backtest(strategy, price_data) run date by date.    *)

Periods == {"quarterly", "monthly", "weekly"}

\* RunQuarterly / RunMonthly / RunWeekly .compare_dates(now, date_to_compare)
compare_dates(period, now, prev) ==
    CASE period = "monthly" ->
            Year(now) # Year(prev) \/ Month(now) # Month(prev)
      [] period = "weekly" ->
            Year(now) # Year(prev) \/ Week(now) # Week(prev)
      [] OTHER ->       \* 'quarterly', and the default of create_strategy
            Year(now) # Year(prev) \/ Quarter(now) # Quarter(prev)

RunEveryBoundary(period, axis, t) ==
    IF t = 1 THEN TRUE
    ELSE compare_dates(period, axis[t], axis[t - 1])

\* rebalance_algo(target) on the t-th date of price_data: created with
\* run_on_first_date=True, and run_on_end_of_period, run_on_last_date left at
\* their defaults (False)
rebalance_algo(period, axis, t) ==
    IF t = 1 THEN TRUE
    ELSE IF t = Len(axis) THEN FALSE
    ELSE compare_dates(period, axis[t], axis[t - 1])

BtInstruments == 1..NBtInst
Range(f) == {f[a] : a \in DOMAIN f}

RECURSIVE Sum(_, _)
Sum(f, S) ==
    IF S = {} THEN 0
    ELSE LET x == CHOOSE y \in S : TRUE IN f[x] + Sum(f, S \ {x})

WeighByK(selected) == [i \in Range(selected) |-> <<1, bt_k>>]

\* bt.algos.WeighEqually: temp['weights'] = {x: 1/len(selected)}, {} if none
WeighEqually(selected) ==
    [i \in Range(selected) |-> <<1, Len(selected)>>]

\* the value of the securities: position * price of every open position
SecurityValue(pos, price) ==
    Sum([i \in BtInstruments |-> IF pos[i] = 0 THEN 0 ELSE pos[i] * price[i]],
        BtInstruments)

\* Security.update: "Position is open (non-zero) and latest price is NaN"
UpdateRaises(pos, price) ==
    \E i \in BtInstruments : pos[i] # 0 /\ price[i] = NaN

\* Security.allocate: "Cannot allocate capital to ... because price is nan"
AllocateRaises(weights, price) ==
    \E i \in DOMAIN weights : price[i] = NaN

DriftingPositions(weights, base, price, pos) ==
    [i \in BtInstruments |->
        IF i \in DOMAIN weights
        THEN (weights[i][1] * base) \div (weights[i][2] * price[i])
        ELSE pos[i]]

\* bt.algos.Rebalance with base = target.value: children that are not in
\* temp['weights'] are closed, each target is allocated weight * base less
\* what it holds, in whole units (integer_positions), without commission
Rebalance(weights, base, price, pos) ==
    [i \in BtInstruments |->
        IF i \in DOMAIN weights
        THEN (weights[i][1] * base) \div (weights[i][2] * price[i])
        ELSE 0]

NanRow == [i \in BtInstruments |-> NaN]
NoPosition == [i \in BtInstruments |-> 0]

\* the strategy price starts at PAR
PAR == 100

\* the increasing date indexes of 1..n dates taken from a calendar
Axes(calendar, n) ==
    UNION {SortedAxes(m, Range(calendar)) : m \in 1..n}

BtIdle ==
    /\ bt_axis = <<>>
    /\ bt_k = 1
    /\ bt_period = "quarterly"
    /\ bt_desc = FALSE
    /\ bt_i = 0
    /\ bt_status = "idle"
    /\ bt_price = <<>>
    /\ bt_signal = <<>>
    /\ bt_rebal = FALSE
    /\ bt_rebalDates = {}
    /\ bt_log = <<>>
    /\ bt_selected = <<>>
    /\ bt_weights = <<>>
    /\ bt_pos = <<>>
    /\ bt_capital = 0
    /\ bt_value = 0
    /\ bt_equity = <<0, 1>>

\* bt.Backtest(strategy, price_data) and the first lines of Backtest.run: a
\* row of NaN is put before the first date, the strategy gets the initial
\* capital and is updated on that row
BtInit(calendar, periods) ==
    /\ bt_axis \in Axes(calendar, MaxBtDates)
    /\ bt_k \in 1..MaxBtK
    /\ bt_period \in periods
    /\ bt_desc \in BOOLEAN
    /\ bt_i = 0
    /\ bt_status = "running"
    /\ bt_price = NanRow
    /\ bt_signal = <<>>
    /\ bt_rebal = FALSE
    /\ bt_rebalDates = {}
    /\ bt_log = <<>>
    /\ bt_selected = <<>>
    /\ bt_weights = <<>>
    /\ bt_pos = NoPosition
    /\ bt_capital = InitialCapital
    /\ bt_value = InitialCapital
    /\ bt_equity = <<PAR, 1>>

\* target.data.loc[target.now] where target is the strategy the stack runs
\* for: the row of the strategy's own series (its price, value, cash and
\* fees; later bt releases add further series of the strategy), not a row of
\* the instruments' prices
StrategyData(equity, value, capital) ==
    [price |-> equity, value |-> Frac(value, 1), cash |-> Frac(capital, 1),
     fees |-> Frac(0, 1)]

\* LogAvailableStocks.__call__: store_dict[target.now] = row.dropna().shape[0]
LogAvailableStocks(store_dict, now, row) ==
    [d \in DOMAIN store_dict \cup {now} |->
        IF d = now THEN Cardinality({f \in DOMAIN row : ~IsNa(row[f])})
        ELSE store_dict[d]]

\* The state before create_strategy is called with a selection size k that
\* may be zero or negative
NonPositiveKs == {-1, 0}

BtConfigured(calendar, periods) ==
    /\ bt_axis \in Axes(calendar, MaxBtDates)
    /\ bt_k \in NonPositiveKs \cup {1}
    /\ bt_period \in periods
    /\ bt_desc \in BOOLEAN
    /\ bt_i = 0
    /\ bt_status = "configured"
    /\ bt_price = <<>>
    /\ bt_signal = <<>>
    /\ bt_rebal = FALSE
    /\ bt_rebalDates = {}
    /\ bt_log = <<>>
    /\ bt_selected = <<>>
    /\ bt_weights = <<>>
    /\ bt_pos = <<>>
    /\ bt_capital = 0
    /\ bt_value = 0
    /\ bt_equity = <<0, 1>>

\* create_strategy(name, signal_df, k, ...) followed by bt.Backtest(...):
\* k is handed to SelectTopK and bt.algos.SelectN without a check of this
\* repository; SelectN's constructor refuses a negative n with a ValueError
\* in the bt releases that have that check and accepts it in the others; 0 is
\* accepted by all
CreateStrategy ==
    /\ bt_status = "configured"
    /\ \/ /\ bt_k < 0
          /\ bt_status' = "ValueError"
          /\ UNCHANGED <<bt_price, bt_pos, bt_capital, bt_value, bt_equity>>
       \/ /\ bt_status' = "running"
          /\ bt_price' = NanRow
          /\ bt_pos' = NoPosition
          /\ bt_capital' = InitialCapital
          /\ bt_value' = InitialCapital
          /\ bt_equity' = <<PAR, 1>>
    /\ UNCHANGED <<btConfig, bt_i, bt_signal, bt_rebal, bt_rebalDates, bt_log,
                   bt_selected, bt_weights>>
    /\ UNCHANGED <<selVars, ipoVars, facVars, cmbVars, ingVars, dlVars, plVars, rtVars>>

\* One turn of the loop of Backtest.run on the next date, whose price row is
\* one of priceRows and whose signal row is one of signalRows:
\*   strategy.update(dt) ; strategy.run() ; strategy.update(dt)
StepDate(priceRows, signalRows) ==
    /\ bt_status = "running"
    /\ bt_i < Len(bt_axis)
    /\ bt_i' = bt_i + 1
    /\ \E price \in priceRows :
        /\ bt_price' = price
        /\ IF UpdateRaises(bt_pos, price)
           THEN \* strategy.update(dt) raises, the run ends
                /\ bt_status' = "raised"
                /\ UNCHANGED <<bt_signal, bt_rebal, bt_rebalDates, bt_log,
                               bt_selected, bt_weights, bt_pos, bt_capital,
                               bt_value, bt_equity>>
           ELSE
             LET value == bt_capital + SecurityValue(bt_pos, price)
                 \* price = last_price * (1 + value / last_value - 1)
                 equity == Frac(bt_equity[1] * value, bt_equity[2] * bt_value)
             IN
             IF ~rebalance_algo(bt_period, bt_axis, bt_i + 1)
             THEN \* the stack stops at its first algo: nothing is traded
                  /\ bt_status' = "running"
                  /\ bt_rebal' = FALSE
                  /\ bt_signal' = <<>>
                  /\ bt_selected' = <<>>
                  /\ bt_weights' = <<>>
                  /\ bt_value' = value
                  /\ bt_equity' = equity
                  /\ UNCHANGED <<bt_rebalDates, bt_log, bt_pos, bt_capital>>
             ELSE \* LogAvailableStocks, SelectTopK, WeighEqually, Rebalance
                  \E signal \in signalRows :
                  \E selected \in SelectN(signal, bt_k, bt_desc, FALSE) :
                    LET weights == WeighEqually(selected)
                        pos == Rebalance(weights, value, price, bt_pos)
                    IN
                    /\ bt_rebal' = TRUE
                    /\ bt_rebalDates' = bt_rebalDates \cup {bt_i + 1}
                    /\ bt_log' = LogAvailableStocks(
                                    bt_log, bt_i + 1,
                                    StrategyData(equity, value, bt_capital))
                    /\ bt_signal' = signal
                    /\ bt_selected' = selected
                    /\ bt_weights' = weights
                    /\ IF AllocateRaises(weights, price)
                       THEN /\ bt_status' = "raised"
                            /\ UNCHANGED <<bt_pos, bt_capital, bt_value,
                                           bt_equity>>
                       ELSE /\ bt_status' = "running"
                            /\ bt_pos' = pos
                            /\ bt_capital' = value - SecurityValue(pos, price)
                            /\ bt_value' = value
                            /\ bt_equity' = equity
    /\ UNCHANGED btConfig
    /\ UNCHANGED <<selVars, ipoVars, facVars, cmbVars, ingVars, dlVars, plVars, rtVars>>

\* the inputs of the runs checked
PriceRows == [BtInstruments -> (1..MaxBtPrice) \cup {NaN}]
SignalRows == [BtInstruments -> SignalCells]
FlatRows == {[i \in BtInstruments |-> 1]}

\* 2020-03-30 is a Monday; a quarter starts on 2020-04-01, a week on 04-06
RunCalendar == <<20200330, 20200331, 20200401, 20200406>>

\* 2019-12-30 is a Monday; 2020-01-02 is in the same ISO week, the next year
ScheduleCalendar ==
    <<20191230, 20191231, 20200102, 20200106, 20200203, 20200401>>

-----------------------------------------------------------------------------
(* get_candlestick_data(symbols, 'bt', dir) and                             *)
(* get_fundamental_data(symbols, ratio, 'bt', dir)                          *)
(* A file is [state, data]: it is missing, unreadable (open or json.load    *)
(* raises) or holds the list data of records [date, value], value being    *)
(* the 'close' field or the field of the requested ratio.                   *)

\* rec.get(field) of a field that is null in the file / that the record
\* does not have
Null == -2
Absent == -1

IngSymbols == 1..NIngSymbols
IngRecords ==
    [date : (1..NIngDates) \cup {Null, Absent},
     value : (1..MaxIngValue) \cup {Null, Absent}]
IngFiles ==
    {[state |-> "missing", data |-> <<>>],
     [state |-> "unreadable", data |-> <<>>]}
        \cup {[state |-> "ok", data |-> d] :
                d \in UNION {[1..n -> IngRecords] : n \in 0..MaxRecords}}

\* the condition under which a record is appended to records
\* (candlestick_interface.py:45-48, fundamental_interface.py:53-57)
Appended(kind, rec) ==
    IF kind = "candlestick"
    THEN rec.date \notin {Null, Absent} /\ rec.value \notin {Null, Absent}
    ELSE rec.value # Absent /\ rec.date \notin {Null, Absent}

\* a loop over the records that stops at the first record it does not append
RECURSIVE AppendUntilRejected(_, _)
AppendUntilRejected(kind, data) ==
    IF data = <<>> \/ ~Appended(kind, Head(data)) THEN <<>>
    ELSE <<Head(data)>> \o AppendUntilRejected(kind, Tail(data))

\* for rec in data: the records of one file that are appended
RECURSIVE AppendRecords(_, _)
AppendRecords(kind, data) ==
    IF data = <<>> THEN <<>>
    ELSE (IF Appended(kind, Head(data)) THEN <<Head(data)>> ELSE <<>>)
            \o AppendRecords(kind, Tail(data))

\* for symbol in symbols: a missing or unreadable file is passed over with
\* 'continue'; the appended records, by symbol
LoadRecords(kind, files) ==
    [s \in DOMAIN files |->
        IF files[s].state = "ok" THEN AppendRecords(kind, files[s].data)
        ELSE <<>>]

\* df.pivot_table(index='date', columns='symbol', values=...).sort_index():
\* the cell of a date and a symbol is the mean of the values of their
\* records that are not NaN; a date or a symbol without any such value is
\* not in the table; a cell without one is NaN
pivot_table(records) ==
    LET Group(d, s) ==
            {i \in 1..Len(records[s]) :
                records[s][i].date = d /\ records[s][i].value # Null}
        dates == {d \in 1..NIngDates :
                    \E s \in DOMAIN records : Group(d, s) # {}}
        symbols == {s \in DOMAIN records :
                    \E d \in 1..NIngDates : Group(d, s) # {}}
    IN  [d \in dates |->
            [s \in symbols |->
                IF Group(d, s) = {} THEN QNaN
                ELSE Frac(Sum([i \in Group(d, s) |-> records[s][i].value],
                              Group(d, s)),
                          Cardinality(Group(d, s)))]]

IngInit ==
    /\ ing_kind \in {"candlestick", "fundamental"}
    /\ ing_files \in [IngSymbols -> IngFiles]
    /\ ing_out = <<>>
    /\ ing_pc = "request"

IngIdle ==
    /\ ing_kind = "none"
    /\ ing_files = <<>>
    /\ ing_out = <<>>
    /\ ing_pc = "idle"

\* one call of get_candlestick_data or get_fundamental_data for all symbols
LoadTable ==
    /\ ing_pc = "request"
    /\ ing_out' = pivot_table(LoadRecords(ing_kind, ing_files))
    /\ ing_pc' = "loaded"
    /\ UNCHANGED <<ing_kind, ing_files>>
    /\ UNCHANGED <<selVars, ipoVars, facVars, cmbVars, btVars, dlVars, plVars, rtVars>>

-----------------------------------------------------------------------------
(* download_candlestick_data(stock_codes, start_date, end_date)             *)

\* what the API answers to the request for one stock: records, an empty
\* list, an HTTP status other than 200, or a body whose code is not 1
Answers == {"records", "empty", "status", "code"}

\* post_request: raises on a status other than 200 and on a code other than
\* 1, returns the body otherwise
post_request(answer) ==
    IF answer \in {"status", "code"}
    THEN [raised |-> TRUE, data |-> "None"]
    ELSE [raised |-> FALSE, data |-> answer]

\* download_candlestick: result.get("data", []); an exception of post_request
\* passes through
download_candlestick(answer) == post_request(answer)

DlInit ==
    /\ dl_codes \in UNION {[1..n -> Answers] : n \in 1..NDlStocks}
    /\ dl_i = 0
    /\ dl_results = <<>>
    /\ dl_saved = {}
    /\ dl_pc = "running"

DlIdle ==
    /\ dl_codes = <<>>
    /\ dl_i = 0
    /\ dl_results = <<>>
    /\ dl_saved = {}
    /\ dl_pc = "idle"

\* one turn of 'for stock in stock_codes' (lines 36-51), and the return after
\* the last one; the call of download_candlestick is not inside a try, so
\* its exception ends download_candlestick_data; a failure to write the file
\* is caught and the data is reported all the same
DownloadStock ==
    /\ dl_pc = "running"
    /\ dl_i < Len(dl_codes)
    /\ LET stock == dl_i + 1
           r == download_candlestick(dl_codes[stock])
       IN  IF r.raised
           THEN /\ dl_pc' = "raised"
                /\ UNCHANGED <<dl_i, dl_results, dl_saved>>
           ELSE /\ dl_i' = stock
                /\ dl_pc' = IF stock = Len(dl_codes) THEN "returned"
                            ELSE "running"
                /\ IF r.data = "empty"
                   THEN /\ dl_results' =
                              [c \in DOMAIN dl_results \cup {stock} |->
                                  IF c = stock THEN "None" ELSE dl_results[c]]
                        /\ UNCHANGED dl_saved
                   ELSE /\ dl_results' =
                              [c \in DOMAIN dl_results \cup {stock} |->
                                  IF c = stock THEN "data" ELSE dl_results[c]]
                        /\ \E written \in BOOLEAN :
                              dl_saved' = IF written
                                          THEN dl_saved \cup {stock}
                                          ELSE dl_saved
    /\ UNCHANGED dl_codes
    /\ UNCHANGED <<selVars, ipoVars, facVars, cmbVars, ingVars, btVars, plVars, rtVars>>

-----------------------------------------------------------------------------
(* main(): load_and_prepare_ratios, create_value_composite and the selection*)
(* of the strategy made by create_combined_strategy                         *)

PlInstruments == 1..NPlInst
PlDates == 1..NPlDates
\* the dates of the tables, in order
PlAxis == [t \in PlDates |-> t]

\* a table of ratios as create_combined_ratio reads it
ToRatioTable(df) ==
    [t \in DOMAIN df |->
        [c \in DOMAIN df[t] |->
            IF df[t][c] = NaN THEN QNaN ELSE Q(df[t][c])]]

\* bt.algos.SetStat(signal): temp['stat'] = signal.loc[now]; the values are
\* given by their rank in the row, which is all that sort_values looks at
SetStat(signal, now) ==
    LET row == signal[now]
    IN  [c \in DOMAIN row |->
            IF IsNa(row[c]) THEN NaN
            ELSE Cardinality({d \in Observed(row) : QLess(row[d], row[c])})]

PlInit ==
    /\ pl_close \in [PlDates -> [PlInstruments -> {NaN, 1}]]
    /\ \E pb \in [PlDates -> [PlInstruments -> SignalCells]] :
       \E pe, dividend_yield \in [PlDates -> [PlInstruments -> {NaN, 1}]] :
           pl_raw = <<pb, pe, dividend_yield>>
    /\ pl_filtered = <<>>
    /\ pl_combined = <<>>
    /\ pl_date = 0
    /\ pl_selected = <<>>
    /\ pl_pc = "loaded"

PlIdle ==
    /\ pl_close = <<>>
    /\ pl_raw = <<>>
    /\ pl_filtered = <<>>
    /\ pl_combined = <<>>
    /\ pl_date = 0
    /\ pl_selected = <<>>
    /\ pl_pc = "idle"

\* load_and_prepare_ratios: every ratio table through
\* prepare_ratio_for_analysis
PrepareRatios ==
    /\ pl_pc = "loaded"
    /\ pl_filtered' =
          [i \in DOMAIN pl_raw |->
              filter_factors_by_first_close(PlAxis, pl_close, PlAxis,
                                            pl_raw[i])]
    /\ pl_pc' = "prepared"
    /\ UNCHANGED <<pl_close, pl_raw, pl_combined, pl_date, pl_selected>>
    /\ UNCHANGED <<selVars, ipoVars, facVars, cmbVars, ingVars, btVars,
                   dlVars, rtVars>>

\* create_value_composite(ratios) of the prepared tables pb, pe and
\* dividend_yield, with the default weights
CombineRatios ==
    /\ pl_pc = "prepared"
    /\ LET ratios == [i \in DOMAIN pl_filtered |->
                         ToRatioTable(pl_filtered[i])]
           inverted_dyr_df == Negate(ratios[3])
       IN  pl_combined' =
               create_combined_ratio(
                   <<ratios[1], ratios[2], inverted_dyr_df>>,
                   DefaultWeights).combined_df
    /\ pl_pc' = "combined"
    /\ UNCHANGED <<pl_close, pl_raw, pl_filtered, pl_date, pl_selected>>
    /\ UNCHANGED <<selVars, ipoVars, facVars, cmbVars, ingVars, btVars,
                   dlVars, rtVars>>

\* SelectTopK of create_combined_strategy(combined_ratio, k) on a rebalance
\* date: sort_descending=False
SelectOnDate ==
    /\ pl_pc = "combined"
    /\ \E now \in PlDates : \E k \in 1..NPlInst :
        /\ pl_date' = now
        /\ pl_selected' \in SelectN(SetStat(pl_combined, now), k, FALSE, FALSE)
    /\ pl_pc' = "selected"
    /\ UNCHANGED <<pl_close, pl_raw, pl_filtered, pl_combined>>
    /\ UNCHANGED <<selVars, ipoVars, facVars, cmbVars, ingVars, btVars,
                   dlVars, rtVars>>

-----------------------------------------------------------------------------
(* scripts: download_stock_info.main (one output file) and                  *)
(* download_fundamental.main (one output file per stock of the list)        *)

MAX_RETRIES == 3

\* what one call of download_stock_info / download_fundamental does:
\*   "data"   it returns the body's data
\*   "null"   it returns None: result.get("data", []) of a body whose data
\*            is null
\*   "429"    it raises, and the error text contains '429'
\*   "error"  it raises another error
Outcomes == {"data", "null", "429", "error"}

\* the attempt raised
Raised(o) == o \in {"429", "error"}

\* an except clause that waits and tries again whatever the error is
RetryAnyError(o) == Raised(o)

\* '429' in str(e)
TooManyRequests(o) == o = "429"

RtInit ==
    /\ rt_stocks \in UNION {[1..n -> {"listed", "filtered"}] :
                                n \in 1..NRtStocks}
    /\ rt_exists \in SUBSET DOMAIN rt_stocks
    /\ rt_i = 0
    /\ rt_hist = [s \in DOMAIN rt_stocks |-> <<>>]
    /\ rt_written = {}
    /\ rt_pc = "next"

RtIdle ==
    /\ rt_stocks = <<>>
    /\ rt_exists = {}
    /\ rt_i = 0
    /\ rt_hist = <<>>
    /\ rt_written = {}
    /\ rt_pc = "idle"

\* the loop continues with the entry after s, or ends
AfterStock(s) == IF s = Len(rt_stocks) THEN "done" ELSE "next"

\* the head of the loop body: the entry is passed over if it is filtered out
\* (no mutualMarkets, stockCode or fsTableType) or if its file exists
BeginStock ==
    /\ rt_pc = "next"
    /\ rt_i < Len(rt_stocks)
    /\ LET s == rt_i + 1
       IN  /\ rt_i' = s
           /\ rt_pc' = IF rt_stocks[s] = "filtered" \/ s \in rt_exists
                       THEN AfterStock(s)
                       ELSE "trying"
    /\ UNCHANGED <<rt_stocks, rt_exists, rt_hist, rt_written>>
    /\ UNCHANGED <<selVars, ipoVars, facVars, cmbVars, ingVars, btVars,
                   dlVars, plVars>>

\* one pass of 'for attempt in range(1, MAX_RETRIES+1)' and, when the loop is
\* left, the rest of the body: the file is written unless the data is None
Attempt ==
    /\ rt_pc = "trying"
    /\ \E o \in Outcomes :
        LET s == rt_i
            hist == Append(rt_hist[s], o)
            again == /\ Raised(o)
                     /\ TooManyRequests(o)
                     /\ Len(hist) < MAX_RETRIES
        IN  /\ rt_hist' = [rt_hist EXCEPT ![s] = hist]
            /\ rt_pc' = IF again THEN "trying" ELSE AfterStock(s)
            /\ rt_written' = IF o = "data" THEN rt_written \cup {s}
                             ELSE rt_written
    /\ UNCHANGED <<rt_stocks, rt_exists, rt_i>>
    /\ UNCHANGED <<selVars, ipoVars, facVars, cmbVars, ingVars, btVars,
                   dlVars, plVars>>

-----------------------------------------------------------------------------
vars == <<selVars, ipoVars, facVars, cmbVars, ingVars, btVars, dlVars,
         plVars,
         rtVars>>

\* a backtest run over prices and signals with gaps, ties and price moves
Init ==
    BtInit(RunCalendar, Periods) /\ SelIdle /\ IpoIdle /\ FacIdle /\ CmbIdle /\ IngIdle
        /\ DlIdle /\ PlIdle /\ RtIdle
Next == StepDate(PriceRows, SignalRows)
Spec == Init /\ [][Next]_vars

\* the rebalance schedule over a calendar with week, month, quarter and year
\* boundaries, of a run on constant prices and signals
InitSchedule ==
    BtInit(ScheduleCalendar, Periods \cup {"daily"})
        /\ SelIdle /\ IpoIdle /\ FacIdle /\ CmbIdle /\ IngIdle /\ DlIdle /\ PlIdle /\ RtIdle
NextSchedule == StepDate(FlatRows, FlatRows)
SpecSchedule == InitSchedule /\ [][NextSchedule]_vars

\* create_strategy with any selection size, and the run that follows
InitConstruct ==
    BtConfigured(RunCalendar, Periods)
        /\ SelIdle /\ IpoIdle /\ FacIdle /\ CmbIdle /\ IngIdle /\ DlIdle /\ PlIdle /\ RtIdle
NextConstruct == CreateStrategy \/ StepDate(FlatRows, SignalRows)
SpecConstruct == InitConstruct /\ [][NextConstruct]_vars

\* one call of SelectTopK
InitSelect == SelInit /\ IpoIdle /\ FacIdle /\ CmbIdle /\ IngIdle /\ BtIdle
        /\ DlIdle /\ PlIdle /\ RtIdle
NextSelect == Select
SpecSelect == InitSelect /\ [][NextSelect]_vars

\* filter_by_ipo_date, and again on its result
InitIpo == IpoInit /\ SelIdle /\ FacIdle /\ CmbIdle /\ IngIdle /\ BtIdle
        /\ DlIdle /\ PlIdle /\ RtIdle
NextIpo == FilterOnce \/ FilterTwice
SpecIpo == InitIpo /\ [][NextIpo]_vars

\* filter_factors_by_first_close
InitFactors == FacInit /\ SelIdle /\ IpoIdle /\ CmbIdle /\ IngIdle /\ BtIdle
        /\ DlIdle /\ PlIdle /\ RtIdle
NextFactors == FilterFactors
SpecFactors == InitFactors /\ [][NextFactors]_vars

\* create_combined_ratio
InitCombine ==
    CmbInit /\ SelIdle /\ IpoIdle /\ FacIdle /\ IngIdle /\ BtIdle
        /\ DlIdle /\ PlIdle /\ RtIdle
NextCombine == Combine
SpecCombine == InitCombine /\ [][NextCombine]_vars

\* every table transformation of the pipeline, each on its own inputs
InitComposite ==
    CompositeInit /\ SelIdle /\ IpoIdle /\ FacIdle /\ IngIdle /\ BtIdle
        /\ DlIdle /\ PlIdle /\ RtIdle
InitTransform == InitIpo \/ InitFactors \/ InitCombine \/ InitComposite
NextTransform ==
    FilterOnce \/ FilterTwice \/ FilterFactors \/ Combine \/ ValueComposite
SpecTransform == InitTransform /\ [][NextTransform]_vars

\* raw ingestion of the candlestick or fundamental files
InitIngest ==
    IngInit /\ SelIdle /\ IpoIdle /\ FacIdle /\ CmbIdle /\ BtIdle
        /\ DlIdle /\ PlIdle /\ RtIdle
NextIngest == LoadTable
SpecIngest == InitIngest /\ [][NextIngest]_vars

\* download_candlestick_data against an API that may refuse any request
InitDownload ==
    DlInit /\ SelIdle /\ IpoIdle /\ FacIdle /\ CmbIdle /\ IngIdle /\ BtIdle
        /\ PlIdle /\ RtIdle
NextDownload == DownloadStock
SpecDownload == InitDownload /\ [][NextDownload]_vars

\* prices and ratios through preparation, combination and selection
InitPipeline ==
    PlInit /\ SelIdle /\ IpoIdle /\ FacIdle /\ CmbIdle /\ IngIdle /\ BtIdle
        /\ DlIdle /\ RtIdle
NextPipeline == PrepareRatios \/ CombineRatios \/ SelectOnDate
SpecPipeline == InitPipeline /\ [][NextPipeline]_vars

\* the download scripts against an API that may fail any request
InitRetry ==
    RtInit /\ SelIdle /\ IpoIdle /\ FacIdle /\ CmbIdle /\ IngIdle /\ BtIdle
        /\ DlIdle /\ PlIdle
NextRetry == BeginStock \/ Attempt
SpecRetry == InitRetry /\ [][NextRetry]_vars

-----------------------------------------------------------------------------
(* SelectTopK: claims C5, C6 (specification SpecSelect)                     *)

SelValid == {i \in Instruments : sel_row[i] # NaN}
SelChosen == {sel_out[a] : a \in 1..Len(sel_out)}
SelBetter(i, j) ==
    IF sel_desc THEN sel_row[i] > sel_row[j] ELSE sel_row[i] < sel_row[j]

\* C5: select returns only instruments with a value on the row, each once;
\* without all_or_none it returns min(K, n) of the n valid instruments, with
\* all_or_none none when n < K and K otherwise; and no valid instrument left
\* out ranks strictly better (higher if descending, lower if not) than one
\* that was selected.
C5_SelectContract ==
    sel_pc = "selected" =>
        LET n == Cardinality(SelValid)
        IN  /\ SelChosen \subseteq SelValid
            /\ Cardinality(SelChosen) = Len(sel_out)
            /\ ~sel_aon => Len(sel_out) = Min(sel_K, n)
            /\ sel_aon => Len(sel_out) = (IF n < sel_K THEN 0 ELSE sel_K)
            /\ \A i \in SelChosen : \A j \in SelValid \ SelChosen :
                    ~SelBetter(j, i)
            /\ \A a, b \in 1..Len(sel_out) :
                    a < b => ~SelBetter(sel_out[b], sel_out[a])

\* a descending selection that had to rank: a missing value on the row, more
\* valid instruments than K, and a better and a worse value to tell apart
C5_Witness ==
    /\ sel_pc = "selected"
    /\ sel_desc
    /\ ~sel_aon
    /\ SelValid # Instruments
    /\ Cardinality(SelValid) > sel_K
    /\ \E i \in SelChosen : \E j \in SelValid \ SelChosen :
            sel_row[i] > sel_row[j]

\* C6: the tie-break is stable on the column order: among instruments with
\* an equal signal value the earlier column is ranked first, so it comes
\* first in the returned list and is the one selected when only one fits.
C6_StableTieBreak ==
    sel_pc = "selected" =>
        /\ \A a, b \in 1..Len(sel_out) :
                (a < b /\ sel_row[sel_out[a]] = sel_row[sel_out[b]])
                    => sel_out[a] < sel_out[b]
        /\ \A i \in SelChosen : \A j \in SelValid \ SelChosen :
                sel_row[i] = sel_row[j] => i < j

-----------------------------------------------------------------------------
(* filter_by_ipo_date: claims C7, C8, C9 (specification SpecIpo)            *)

IpoFiltered == ipo_pc \in {"once", "twice"}
Listed == {i \in IpoInstruments : ipo_rec[i] # NoRecord}
SetMax(S) == CHOOSE x \in S : \A y \in S : y <= x

\* the dates up to t, not before `from`, on which column i of the input has
\* a value
ValidSince(i, t, from) ==
    {s \in 1..t : ipo_axis[s] >= from /\ ipo_in[s][i] # NaN}

\* C7: for an instrument with a listing record, the output on date d is
\* 'no observation' if d is before the listing date, else the input value of
\* the latest date between the listing date and d that has one, else
\* 'no observation'.
C7_TruncateBeforeListing ==
    IpoFiltered =>
        \A i \in Listed : \A t \in IpoDates :
            LET C == ValidSince(i, t, ipo_rec[i])
            IN  ipo_out1[t][i] =
                    IF ipo_axis[t] < ipo_rec[i] \/ C = {} THEN NaN
                    ELSE ipo_in[SetMax(C)][i]

\* Scenario 1: a value before the listing date, then a listed date without
\* one, then a value
C7_Witness ==
    /\ ipo_pc = "once"
    /\ \E i \in Listed : \E s, t, u \in IpoDates :
            /\ s < t /\ t < u
            /\ ipo_axis[s] < ipo_rec[i] /\ ipo_rec[i] <= ipo_axis[t]
            /\ ipo_in[s][i] # NaN /\ ipo_in[t][i] = NaN /\ ipo_in[u][i] # NaN
            /\ ipo_out1[s][i] = NaN /\ ipo_out1[t][i] = NaN
            /\ ipo_out1[u][i] = ipo_in[u][i]

\* C8: filter_by_ipo_date applied to its own output returns that output.
C8_Idempotent == ipo_pc = "twice" => ipo_out2 = ipo_out1

\* a second application to a table the first one both cleared and filled
C8_Witness ==
    /\ ipo_pc = "twice"
    /\ \E i \in Listed : \E t \in IpoDates :
            ipo_in[t][i] # NaN /\ ipo_out1[t][i] = NaN
    /\ \E i \in IpoInstruments : \E t, u \in IpoDates :
            t + 1 < u /\ ipo_in[t][i] # NaN /\ ipo_out1[t][i] # NaN
                /\ \A s \in (t + 1)..u : ipo_in[s][i] = NaN

\* C9 as claimed: a column without a listing record comes out equal to the
\* input on every date, the dates without an observation included.
C9_PassThroughUnchanged ==
    IpoFiltered =>
        \A i \in IpoInstruments \ Listed : \A t \in IpoDates :
            ipo_out1[t][i] = ipo_in[t][i]

\* C9 amended: a column without a listing record is not truncated: it comes
\* out equal to the input on every date where the input has an observation,
\* and on a date where it has none it is the most recent earlier input value
\* or, if there is none, 'no observation'.
C9_UnlistedOnlyForwardFilled ==
    IpoFiltered =>
        \A i \in IpoInstruments \ Listed : \A t \in IpoDates :
            LET C == {s \in 1..t : ipo_in[s][i] # NaN}
            IN  ipo_out1[t][i] = IF C = {} THEN NaN ELSE ipo_in[SetMax(C)][i]

\* a column without a record that has a gap after a value, and a leading gap
C9_Witness ==
    /\ ipo_pc = "once"
    /\ \E i \in IpoInstruments \ Listed : \E t \in IpoDates :
            /\ t > 1
            /\ ipo_in[t][i] = NaN
            /\ ipo_in[t - 1][i] # NaN
            /\ ipo_out1[t][i] = ipo_in[t - 1][i]
    /\ \E i \in IpoInstruments \ Listed :
            ipo_in[1][i] = NaN /\ ipo_out1[1][i] = NaN

\* C25: after filter_by_ipo_date the dates with a valid value form a suffix
\* of the date axis in every column: a valid price on a date means a valid
\* price on every later date, and a date without a raw observation after a
\* valid price carries the price of the date before it.
C25_ValidDatesFormSuffix ==
    IpoFiltered =>
        \A i \in IpoInstruments : \A t \in IpoDates :
            (t > 1 /\ ipo_out1[t - 1][i] # NaN) =>
                /\ ipo_out1[t][i] # NaN
                /\ ipo_in[t][i] = NaN => ipo_out1[t][i] = ipo_out1[t - 1][i]

\* a column whose last observation is followed by two dates without one, and
\* a column that is missing a price on the first date only
C25_Witness ==
    /\ ipo_pc = "once"
    /\ \E i \in IpoInstruments : \E t \in IpoDates :
            /\ t + 2 \in IpoDates
            /\ ipo_in[t][i] # NaN /\ ipo_out1[t][i] = ipo_in[t][i]
            /\ ipo_in[t + 1][i] = NaN /\ ipo_in[t + 2][i] = NaN
            /\ ipo_out1[t + 1][i] = ipo_in[t][i]
            /\ ipo_out1[t + 2][i] = ipo_in[t][i]
    /\ \E i \in IpoInstruments :
            ipo_out1[1][i] = NaN /\ ipo_out1[2][i] # NaN

-----------------------------------------------------------------------------
(* filter_factors_by_first_close: claim C10 (specification SpecFactors)     *)

FacBoth == Columns(fac_close) \cap Columns(fac_in)
PricedRows(c) == {t \in FacDates : fac_close[t][c] # NaN}

\* C10: for an instrument that is a column of both tables and has a first
\* date f with a valid price, the output signal is 'no observation' on every
\* date before f and the input signal on every date on or after f.
C10_TruncateBeforeFirstPrice ==
    fac_pc = "filtered" =>
        \A c \in FacBoth :
            PricedRows(c) # {} =>
                \A t \in FacDates :
                    fac_out[t][c] =
                        IF \E u \in PricedRows(c) : fac_closeAxis[u] <= fac_axis[t]
                        THEN fac_in[t][c]
                        ELSE NaN

\* a common column whose first row has no price, with a signal value that is
\* cleared and one that is kept
C10_Witness ==
    /\ fac_pc = "filtered"
    /\ \E c \in FacBoth : \E t, u \in FacDates :
            /\ fac_close[1][c] = NaN
            /\ PricedRows(c) # {}
            /\ fac_in[t][c] # NaN /\ fac_out[t][c] = NaN
            /\ fac_in[u][c] # NaN /\ fac_out[u][c] = fac_in[u][c]

\* C11: an instrument that is a column of the signal table but not of the
\* price table is left untouched (output column = input column on every
\* date), and the output has exactly the signal table's dates and columns.
C11_SignalOnlyColumnsUntouched ==
    fac_pc = "filtered" =>
        /\ DOMAIN fac_out = DOMAIN fac_in
        /\ \A t \in DOMAIN fac_out : DOMAIN fac_out[t] = Columns(fac_in)
        /\ \A c \in Columns(fac_in) \ Columns(fac_close) :
                \A t \in DOMAIN fac_in : fac_out[t][c] = fac_in[t][c]

\* a signal-only column with a value on a date where a common column is
\* cleared
C11_Witness ==
    /\ fac_pc = "filtered"
    /\ \E c \in Columns(fac_in) \ Columns(fac_close) : \E t \in FacDates :
            /\ fac_in[t][c] # NaN
            /\ fac_out[t][c] = fac_in[t][c]
            /\ \E d \in FacBoth : fac_in[t][d] # NaN /\ fac_out[t][d] = NaN

\* C23: for every instrument that is a column of both tables and every date
\* d, a valid output signal on d means the price table has a valid price for
\* the instrument on some date <= d; an instrument without any valid price
\* therefore has an output column that is entirely 'no observation'.
C23_NoSignalBeforeAnyPrice ==
    fac_pc = "filtered" =>
        \A c \in FacBoth : \A t \in FacDates :
            fac_out[t][c] # NaN =>
                \E u \in PricedRows(c) : fac_closeAxis[u] <= fac_axis[t]

-----------------------------------------------------------------------------
(* create_combined_ratio: claims C12..C15 (specification SpecCombine)       *)

CmbSignals == 1..Len(cmb_in)
CmbAllDates == UNION {CmbDates(cmb_in[i]) : i \in CmbSignals}
CmbAllColumns == UNION {CmbColumns(cmb_in[i]) : i \in CmbSignals}
CmbHas(df, t, c) == t \in CmbDates(df) /\ c \in CmbColumns(df)
SameShape ==
    \A i \in CmbSignals :
        /\ CmbDates(cmb_in[i]) = CmbDates(cmb_in[1])
        /\ CmbColumns(cmb_in[i]) = CmbColumns(cmb_in[1])

\* the value of normalised signal i for instrument c on date t, 0 when the
\* signal has no observation there
NormAt(i, t, c) ==
    IF CmbHas(cmb_norm[i], t, c) /\ ~IsNa(cmb_norm[i][t][c])
    THEN cmb_norm[i][t][c] ELSE Q(0)

RECURSIVE WeightedSum(_, _, _)
WeightedSum(i, t, c) ==
    IF i = 0 THEN Q(0)
    ELSE QAdd(WeightedSum(i - 1, t, c), QTimes(NormAt(i, t, c), cmb_w[i]))

\* the values of signal i on date t are spread (max > min)
Spread(i, t) ==
    /\ Observed(cmb_in[i][t]) # {}
    /\ QLess(RowMin(cmb_in[i][t]), RowMax(cmb_in[i][t]))
\* all valid values of signal i on date t are equal
Degenerate(i, t) ==
    /\ Observed(cmb_in[i][t]) # {}
    /\ ~QLess(RowMin(cmb_in[i][t]), RowMax(cmb_in[i][t]))

\* C12: for every date and every instrument the output of combine is the
\* sum over the signals of weights[i] * n_i, n_i being the normalised value of
\* signal i for that instrument and date and 0 where signal i has no
\* observation; and when the normalised rows of all signals are the same on a
\* date, the output row is that row, whatever the weights.
C12_WeightedSumEverywhere ==
    cmb_pc = "combined" =>
        /\ \A t \in CmbAllDates : \A c \in CmbAllColumns :
                /\ CmbHas(cmb_out, t, c)
                /\ cmb_out[t][c] = WeightedSum(Len(cmb_in), t, c)
        /\ \A t \in CmbAllDates :
                (\A i \in CmbSignals :
                    /\ t \in CmbDates(cmb_norm[i])
                    /\ cmb_norm[i][t] = cmb_norm[1][t]
                    /\ Observed(cmb_norm[1][t]) = DOMAIN cmb_norm[1][t])
                => cmb_out[t] = cmb_norm[1][t]

\* C13 as stated: combine fails with a ConfigurationError, without
\* normalising and without an output table, exactly when the numbers of
\* signals and weights differ or the weights' sum is more than 1e-4 off 1.0.
C13_FailsWithConfigurationError ==
    cmb_pc \notin {"idle", "raw"} =>
        IF \/ Len(cmb_in) # Len(cmb_w)
           \/ Abs(SeqSum(cmb_w) - WeightDen) > Tolerance
        THEN cmb_pc = "ConfigurationError" /\ cmb_norm = <<>> /\ cmb_out = <<>>
        ELSE cmb_pc = "combined"

\* C13 amended: combine fails with a ValueError, without normalising and
\* without an output table, exactly when the numbers of signals and weights
\* differ or the weights' sum is more than 1e-4 off 1.0; otherwise it returns
\* a table.
C13_FailsWithValueError ==
    cmb_pc \notin {"idle", "raw"} =>
        IF \/ Len(cmb_in) # Len(cmb_w)
           \/ Abs(SeqSum(cmb_w) - WeightDen) > Tolerance
        THEN cmb_pc = "ValueError" /\ cmb_norm = <<>> /\ cmb_out = <<>>
        ELSE cmb_pc = "combined" /\ cmb_out # <<>>

\* a call refused for its weights' sum only, the lengths being equal
C13_Witness ==
    /\ cmb_pc = "ValueError"
    /\ Len(cmb_in) = Len(cmb_w)
    /\ SeqSum(cmb_w) > WeightDen + Tolerance
    /\ cmb_out = <<>>

\* C14 as stated: on a date where at least 2 instruments have a valid value
\* in a signal, every normalised value combine uses for that signal and date
\* lies in [0, 1].
C14_NormalizedWithinUnit ==
    cmb_pc = "combined" =>
        \A i \in CmbSignals : \A t \in CmbDates(cmb_in[i]) :
            Cardinality(Observed(cmb_in[i][t])) >= 2 =>
                \A c \in Observed(cmb_norm[i][t]) :
                    /\ ~QLess(cmb_norm[i][t][c], Q(0))
                    /\ ~QLess(Q(1), cmb_norm[i][t][c])

\* C14 amended: on a date where a signal has at least 2 different valid
\* values, every normalised value of that signal and date lies in [0, 1],
\* the smallest value maps to 0 and the largest to 1, and an instrument
\* without a value stays without one.
C14_NormalizedWithinUnitWhenSpread ==
    cmb_pc = "combined" =>
        \A i \in CmbSignals : \A t \in CmbDates(cmb_in[i]) :
            Spread(i, t) =>
                /\ Observed(cmb_norm[i][t]) = Observed(cmb_in[i][t])
                /\ \A c \in Observed(cmb_in[i][t]) :
                    /\ ~QLess(cmb_norm[i][t][c], Q(0))
                    /\ ~QLess(Q(1), cmb_norm[i][t][c])
                    /\ cmb_in[i][t][c] = RowMin(cmb_in[i][t])
                            => cmb_norm[i][t][c] = Q(0)
                    /\ cmb_in[i][t][c] = RowMax(cmb_in[i][t])
                            => cmb_norm[i][t][c] = Q(1)

\* a row with three different values, the middle one normalised to 1/2
C14_Witness ==
    /\ cmb_pc = "combined"
    /\ \E i \in CmbSignals : \E t \in CmbDates(cmb_in[i]) :
            /\ Cardinality(Observed(cmb_in[i][t])) = 3
            /\ \E c \in Observed(cmb_in[i][t]) : cmb_norm[i][t][c] = <<1, 2>>

\* C15: on a date where all valid values of a signal are equal (also a
\* single valid value) the signal's row is left as it is, and its raw values
\* are what enters the weighted sum: for tables of the same dates and
\* columns the output is the weighted sum with the raw values of that row.
C15_DegenerateRowLeftRaw ==
    cmb_pc = "combined" =>
        \A i \in CmbSignals : \A t \in CmbDates(cmb_in[i]) :
            Degenerate(i, t) =>
                /\ cmb_norm[i][t] = cmb_in[i][t]
                /\ SameShape =>
                    \A c \in CmbColumns(cmb_in[i]) :
                        cmb_out[t][c] = WeightedSum(Len(cmb_in), t, c)

\* a row of two equal values 2 next to a spread row of the other signal: the
\* output holds weight * 2 for the instrument the other signal ranks lowest
C15_Witness ==
    /\ cmb_pc = "combined"
    /\ SameShape
    /\ \E i, j \in CmbSignals : \E t \in CmbDates(cmb_in[i]) :
            /\ Degenerate(i, t)
            /\ Cardinality(Observed(cmb_in[i][t])) >= 2
            /\ Spread(j, t)
            /\ \E c \in Observed(cmb_in[i][t]) :
                    /\ cmb_in[i][t][c] = Q(2)
                    /\ cmb_norm[j][t][c] = Q(0)
                    /\ cmb_out[t][c] = QTimes(Q(2), cmb_w[i])

-----------------------------------------------------------------------------
(* create_strategy: claim C16 (specification SpecConstruct)                 *)

\* C16: a selection size K <= 0 is refused with a ConfigurationError when
\* the strategy is constructed, so no run with K <= 0 ever starts.
C16_NonPositiveKRejected ==
    bt_k <= 0 => bt_status \in {"configured", "ConfigurationError"}

-----------------------------------------------------------------------------
(* No transformation writes to its inputs: claim C18 (specification        *)
(* SpecTransform)                                                           *)

\* C18: filter_by_ipo_date, filter_factors_by_first_close,
\* create_combined_ratio and create_value_composite leave every input table
\* (price table, listing records, signal tables, the entries of the ratios
\* dict) cell for cell as it was before the call.
C18_InputsNeverWritten ==
    [][/\ ipo_in' = ipo_in /\ ipo_rec' = ipo_rec /\ ipo_axis' = ipo_axis
       /\ fac_in' = fac_in /\ fac_close' = fac_close
       /\ fac_axis' = fac_axis /\ fac_closeAxis' = fac_closeAxis
       /\ cmb_in' = cmb_in /\ cmb_w' = cmb_w]_vars

\* a composite has been built: the normalised negated dividend yield table
\* differs from the caller's table, which still holds the raw values
C18_Witness ==
    /\ cmb_pc = "composite"
    /\ cmb_norm[3] # cmb_in[3]
    /\ cmb_norm[3] # Negate(cmb_in[3])
    /\ \E t \in CmbDates(cmb_in[3]) : \E c \in CmbColumns(cmb_in[3]) :
            cmb_in[3][t][c] = Q(1)

\* the tables the finished call handed to create_combined_ratio
C24_Tables ==
    IF cmb_pc = "composite"
    THEN <<cmb_in[1], cmb_in[2], Negate(cmb_in[3])>>
    ELSE cmb_in

\* C24: create_combined_ratio gives the same composite table (columns, dates,
\* values) when the same permutation is applied to the list of signal tables
\* and to the list of weights, also when the tables differ in columns or
\* dates.
C24_OrderIndependent ==
    cmb_pc \in {"combined", "composite"} =>
        \A p \in Permutations(DOMAIN C24_Tables) :
            create_combined_ratio(
                [i \in DOMAIN C24_Tables |-> C24_Tables[p[i]]],
                [i \in DOMAIN C24_Tables |-> cmb_w[p[i]]]).combined_df
            = cmb_out

-----------------------------------------------------------------------------
(* Raw ingestion: claim C20 (specification SpecIngest)                      *)

IngCell(d, s) ==
    IF d \in DOMAIN ing_out /\ s \in DOMAIN ing_out[d]
    THEN ing_out[d][s] ELSE QNaN

\* the records of symbol s for date d that have both required fields
WellFormed(s, d) ==
    IF ing_files[s].state # "ok" THEN {}
    ELSE {i \in 1..Len(ing_files[s].data) :
            /\ ing_files[s].data[i].date = d
            /\ ing_files[s].data[i].value \notin {Null, Absent}}

\* C20: the call always returns; a record without a date or without the
\* close price / requested ratio contributes no cell; every well-formed
\* record of a readable file is in the table, whatever other records and
\* files are like: the cell of its date and symbol holds its value (the mean
\* of the values if the symbol has several records for the date); a symbol
\* whose file is missing or unreadable has no cell.
C20_BadRecordsSkipped ==
    /\ ing_pc # "raised"
    /\ ing_pc = "loaded" =>
        \A s \in IngSymbols : \A d \in 1..NIngDates :
            IF WellFormed(s, d) = {} THEN IsNa(IngCell(d, s))
            ELSE /\ d \in DOMAIN ing_out
                 /\ s \in DOMAIN ing_out[d]
                 /\ ing_out[d][s] =
                        Frac(Sum([i \in WellFormed(s, d) |->
                                    ing_files[s].data[i].value],
                                 WellFormed(s, d)),
                             Cardinality(WellFormed(s, d)))

\* a file whose first record lacks a field and whose second is well formed,
\* next to a symbol without a readable file: the second record is in the
\* table
C20_Witness ==
    /\ ing_pc = "loaded"
    /\ \E s, u \in IngSymbols :
            /\ ing_files[u].state # "ok"
            /\ ing_files[s].state = "ok"
            /\ Len(ing_files[s].data) = 2
            /\ ~Appended(ing_kind, ing_files[s].data[1])
            /\ Appended(ing_kind, ing_files[s].data[2])
            /\ ing_files[s].data[2].value = 2
            /\ IngCell(ing_files[s].data[2].date, s) = Q(2)

-----------------------------------------------------------------------------
(* download_candlestick_data: claim C21 (specification SpecDownload)        *)

\* C21: download_candlestick_data returns a dictionary with an entry for
\* every requested stock code, the records where the download succeeded and
\* None where it failed; a failed download does not keep the remaining stock
\* codes from being downloaded and reported.
C21_EveryStockReported ==
    /\ dl_pc # "raised"
    /\ dl_pc = "returned" =>
        /\ DOMAIN dl_results = DOMAIN dl_codes
        /\ \A c \in DOMAIN dl_codes :
                dl_results[c] =
                    IF dl_codes[c] = "records" THEN "data" ELSE "None"

-----------------------------------------------------------------------------
(* Preparation, combination, selection: claim C22 (specification            *)
(* SpecPipeline)                                                            *)

\* C22: on a rebalance date, an instrument that has no observation on that
\* date in any of the prepared ratio tables does not take part in the ranking
\* and is not in the selected set of the combined strategy.
C22_UnobservedNeverSelected ==
    pl_pc = "selected" =>
        \A a \in 1..Len(pl_selected) :
            \E i \in DOMAIN pl_filtered :
                pl_filtered[i][pl_date][pl_selected[a]] # NaN

-----------------------------------------------------------------------------
(* Download scripts: claim C26 (specification SpecRetry)                    *)

\* the entries the loop has finished with
RtFinished ==
    {s \in DOMAIN rt_stocks : s < rt_i \/ (s = rt_i /\ rt_pc # "trying")}

\* the parts of C26 that do not speak of the written file: at most
\* MAX_RETRIES attempts, every attempt but the last one of an entry failed
\* with '429', an entry whose file exists (or that is filtered out) is not
\* downloaded, and at the end every other entry has been attempted
C26_Protocol ==
    /\ \A s \in DOMAIN rt_stocks :
        /\ Len(rt_hist[s]) <= MAX_RETRIES
        /\ \A a \in 1..(Len(rt_hist[s]) - 1) : rt_hist[s][a] = "429"
        /\ s \in RtFinished /\ Len(rt_hist[s]) < MAX_RETRIES =>
                \A a \in 1..Len(rt_hist[s]) :
                    a = Len(rt_hist[s]) <=> rt_hist[s][a] # "429"
        /\ s \in rt_exists \/ rt_stocks[s] = "filtered" =>
                rt_hist[s] = <<>> /\ s \notin rt_written
    /\ rt_pc = "done" =>
            \A s \in DOMAIN rt_stocks :
                s \notin rt_exists /\ rt_stocks[s] = "listed" =>
                    rt_hist[s] # <<>>

\* C26 as stated: at most MAX_RETRIES = 3 attempts; a further attempt only
\* after a failure whose text contains '429', any other failure ends the
\* attempts; the output file is written if and only if some attempt
\* succeeded; an existing file is neither downloaded again nor overwritten;
\* a stock whose attempts all fail does not stop the remaining stocks.
C26_WrittenIffAttemptSucceeded ==
    /\ C26_Protocol
    /\ \A s \in RtFinished :
            s \in rt_written <=>
                \E a \in 1..Len(rt_hist[s]) : ~Raised(rt_hist[s][a])

\* C26 amended: as stated, except that the output file is written if and
\* only if some attempt returned data other than None: an attempt that
\* returns None without an error ends the attempts and writes no file.
C26_WrittenIffDataReturned ==
    /\ C26_Protocol
    /\ \A s \in RtFinished :
            /\ s \in rt_written <=>
                    \E a \in 1..Len(rt_hist[s]) : rt_hist[s][a] = "data"
            /\ \A a \in 1..Len(rt_hist[s]) :
                    rt_hist[s][a] = "null" => a = Len(rt_hist[s])

\* a stock that fails three times with '429' and is given up, followed by a
\* stock whose file is written at its second attempt
C26_Witness ==
    /\ rt_pc = "done"
    /\ \E s, u \in DOMAIN rt_stocks :
            /\ s < u
            /\ rt_hist[s] = <<"429", "429", "429">>
            /\ s \notin rt_written
            /\ rt_hist[u] = <<"429", "data">>
            /\ u \in rt_written

-----------------------------------------------------------------------------
(* The backtest run: claims C1, C2, C3 (specification Spec)                 *)

\* the run has processed date bt_i without raising
BtOnDate == bt_status = "running" /\ bt_i >= 1

\* the weight table's row of date bt_i: value of the position / value of
\* the strategy, as numerator and denominator
WeightNum(i) == IF bt_pos[i] = 0 THEN 0 ELSE bt_pos[i] * bt_price[i]
WeightSum == Sum([i \in BtInstruments |-> WeightNum(i)], BtInstruments)
BtSelectedSet == {bt_selected[a] : a \in 1..Len(bt_selected)}

\* C1 as claimed: on every date the weights are non-negative and sum to
\* exactly 0 or exactly 1, never to a value strictly between.
C1_WeightSumZeroOrOne ==
    BtOnDate =>
        /\ \A i \in BtInstruments : WeightNum(i) >= 0
        /\ WeightSum = 0 \/ WeightSum = bt_value

\* C1 amended: on every date the weights are non-negative and sum to
\* (value - cash) / value, at most 1.  On a rebalance date the target weight
\* is exactly 1/|selected| for each selected instrument (and there is none
\* for the others), each selected instrument holds the largest whole number
\* of units worth at most 1/|selected| of the value, every other instrument
\* is weighted 0, and an empty selection leaves all weights 0.
C1_WeightsWithinUnit ==
    BtOnDate =>
        /\ \A i \in BtInstruments : WeightNum(i) >= 0
        /\ bt_capital >= 0
        /\ WeightSum + bt_capital = bt_value
        /\ WeightSum <= bt_value
        /\ bt_rebal =>
            LET n == Cardinality(BtSelectedSet)
            IN  /\ DOMAIN bt_weights = BtSelectedSet
                /\ \A i \in BtSelectedSet : bt_weights[i] = <<1, n>>
                /\ \A i \in BtSelectedSet :
                        /\ WeightNum(i) * n <= bt_value
                        /\ (WeightNum(i) + bt_price[i]) * n > bt_value
                /\ \A i \in BtInstruments \ BtSelectedSet : WeightNum(i) = 0
                /\ n = 0 => WeightSum = 0

\* a rebalance date on which fewer instruments than k could be selected and
\* whole units left some cash
C1_Witness ==
    /\ BtOnDate
    /\ bt_rebal
    /\ BtSelectedSet # {}
    /\ Cardinality(BtSelectedSet) < bt_k
    /\ bt_capital > 0
    /\ WeightSum < bt_value

\* a step of the run onto a HOLD date, and onto a rebalance date
HoldStep == bt_i' = bt_i + 1 /\ bt_status' = "running" /\ ~bt_rebal'
RebalanceStep == bt_i' = bt_i + 1 /\ bt_status' = "running" /\ bt_rebal'

\* C2 as claimed: on a HOLD date the weight row equals the previous date's
\* weight row for every instrument.
C2_HoldKeepsWeights ==
    [][HoldStep =>
            \A i \in BtInstruments :
                WeightNum(i)' * bt_value = WeightNum(i) * bt_value']_vars

\* C2 amended: on a HOLD date the units held of every instrument and the
\* cash equal the previous date's (the weight of an instrument is then its
\* units at that date's price over the value); the holdings change only on a
\* rebalance date, where they are set to the equal weighting, in whole
\* units, of the set selected from that date's signal row.
C2_HoldKeepsHoldings ==
    [][/\ HoldStep =>
            /\ bt_pos' = bt_pos
            /\ bt_capital' = bt_capital
            /\ bt_value' = bt_capital + WeightSum'
       /\ (bt_i' = bt_i + 1 /\ (bt_pos' # bt_pos \/ bt_capital' # bt_capital))
            => RebalanceStep
       /\ RebalanceStep =>
            LET n == Len(bt_selected')
                chosen == {bt_selected'[a] : a \in 1..n}
                valid == {i \in BtInstruments : bt_signal'[i] # NaN}
            IN  /\ chosen \subseteq valid
                /\ n = Min(bt_k, Cardinality(valid))
                /\ \A i \in chosen : \A j \in valid \ chosen :
                        IF bt_desc THEN bt_signal'[j] <= bt_signal'[i]
                        ELSE bt_signal'[j] >= bt_signal'[i]
                /\ \A i \in chosen :
                        bt_pos'[i] = bt_value' \div (n * bt_price'[i])
                /\ \A i \in BtInstruments \ chosen : bt_pos'[i] = 0]_vars

\* a HOLD date on which the price of a held instrument differs from the
\* price it was bought at, while another instrument is held too
C2_Witness ==
    /\ BtOnDate
    /\ ~bt_rebal
    /\ \A i \in BtInstruments : bt_pos[i] > 0
    /\ \E i, j \in BtInstruments :
            /\ bt_pos[i] * bt_price[i] > bt_pos[j] * bt_price[j] + bt_price[j]
            /\ bt_pos[i] <= bt_pos[j]

\* the return of the step into the next date, times the value before it: the
\* previous weights times the instruments' returns, over the instruments
\* with a price on both dates
ReturnTimesValue ==
    Sum([i \in BtInstruments |->
            IF bt_price[i] # NaN /\ bt_price'[i] # NaN
            THEN bt_pos[i] * (bt_price'[i] - bt_price[i])
            ELSE 0],
        BtInstruments)

\* C3: the equity is 100 on the first date, and on every later date t it is
\* equity[t-1] * (1 + r[t]), r[t] the sum of weight[i, t-1] * return[i, t]
\* over the instruments with a price on t-1 and on t; an instrument that
\* misses a price contributes 0 and the run goes on.
C3_EquityRecurrence ==
    [][/\ (bt_i = 0 /\ bt_i' = 1 /\ bt_status' = "running")
            => bt_equity' = <<PAR, 1>>
       /\ (bt_i >= 1 /\ bt_i' = bt_i + 1) =>
            /\ bt_status' = "running"
            /\ bt_equity'[1] * bt_equity[2] * bt_value
                = bt_equity[1] * bt_equity'[2] * (bt_value + ReturnTimesValue)
      ]_vars

\* C17: a started run processes every date of the axis and ends after the
\* last one with weights and equity defined for every date, whatever the
\* tables hold: it never stops early on a date, and an empty selection on a
\* rebalance date is no error and leaves nothing held.
C17_RunProcessesEveryDate ==
    /\ bt_status # "raised"
    /\ (bt_status = "running" /\ bt_rebal /\ bt_selected = <<>>)
            => \A i \in BtInstruments : bt_pos[i] = 0

-----------------------------------------------------------------------------
(* LogAvailableStocks: claim C19 (specification Spec)                       *)

BtPriced == {i \in BtInstruments : bt_price[i] # NaN}

\* C19: the run records a breadth entry for exactly the rebalance dates,
\* each entry being the number of instruments with a valid observation on
\* that date.
C19_BreadthCountsInstruments ==
    /\ DOMAIN bt_log = bt_rebalDates
    /\ bt_rebal => bt_log[bt_i] = Cardinality(BtPriced)

-----------------------------------------------------------------------------
(* The rebalance schedule: claim C4 (specification SpecSchedule)            *)

QuarterOf(date) == Year(date) * 4 + Quarter(date)
MonthOf(date) == Year(date) * 12 + Month(date)
\* the day number of the Monday of the date's week
WeekOf(date) ==
    DaysFromCivil(Year(date), Month(date), Day(date)) - (Weekday(date) - 1)

PeriodOf(date) ==
    CASE bt_period = "monthly" -> MonthOf(date)
      [] bt_period = "weekly" -> WeekOf(date)
      [] OTHER -> QuarterOf(date)

\* the dates of the axis that are in another period than the date before
Boundaries ==
    {t \in 2..Len(bt_axis) : PeriodOf(bt_axis[t]) # PeriodOf(bt_axis[t - 1])}
QuarterBoundaries ==
    {t \in 2..Len(bt_axis) : QuarterOf(bt_axis[t]) # QuarterOf(bt_axis[t - 1])}
BtFinished == bt_status = "running" /\ bt_i = Len(bt_axis)

\* C4 as claimed: the first date is a rebalance date, a later date is one if
\* and only if it is in another quarter/month/week than the date before it,
\* and a quarterly run over exactly one quarter boundary has exactly one
\* rebalance after the first date's.
C4_RebalanceIffBoundary ==
    bt_status = "running" =>
        /\ \A t \in 1..bt_i :
                t \in bt_rebalDates <=> (t = 1 \/ t \in Boundaries)
        /\ (BtFinished /\ bt_period = "quarterly"
                /\ Cardinality(QuarterBoundaries) = 1)
            => Cardinality(bt_rebalDates \ {1}) = 1

\* C4 amended: the first date is a rebalance date; a later date other than
\* the last date of the axis is one if and only if its (year, quarter),
\* (year, month) or (calendar year, ISO week number) differs from that of
\* the date before it; the last date of an axis of two or more dates never
\* is.  A quarterly run over exactly one quarter boundary has exactly one
\* rebalance after the first date's unless the boundary is the last date,
\* and then none.
C4_RebalanceIffBoundaryNotLast ==
    bt_status = "running" =>
        /\ \A t \in 1..bt_i :
                t \in bt_rebalDates <=>
                    \/ t = 1
                    \/ /\ t < Len(bt_axis)
                       /\ \/ t \in Boundaries
                          \/ /\ bt_period = "weekly"
                             /\ Year(bt_axis[t]) # Year(bt_axis[t - 1])
        /\ (BtFinished /\ bt_period = "quarterly"
                /\ Cardinality(QuarterBoundaries) = 1)
            => Cardinality(bt_rebalDates \ {1}) =
                    (IF Len(bt_axis) \in QuarterBoundaries THEN 0 ELSE 1)

\* a finished quarterly run with one quarter boundary inside the axis, and a
\* finished weekly run that rebalanced inside a week at the turn of the year
C4_Witness ==
    /\ BtFinished
    /\ \/ /\ bt_period = "quarterly"
          /\ Cardinality(QuarterBoundaries) = 1
          /\ Len(bt_axis) \notin QuarterBoundaries
          /\ Cardinality(bt_rebalDates) = 2
       \/ /\ bt_period = "weekly"
          /\ \E t \in bt_rebalDates :
                t > 1 /\ WeekOf(bt_axis[t]) = WeekOf(bt_axis[t - 1])

=============================================================================
